---- MODULE Spec2Model ----
(***************************************************************************)
(* Stock ledger (productos_localidad), movement engine (MovimientoService) *)
(* and shipment engine (EnvioService) of the inventory backend.            *)
(*                                                                         *)
(* Spec      : every service call runs to completion before the next one.  *)
(* SpecLedger: the movement engine and direct calls of the ledger.         *)
(* SpecConc  : two requests in flight, one SQL statement per step.         *)
(* SpecAudit : the calls of Spec while the audit INSERT raises.            *)
(* SpecLugar : a place is moved to another location, then a ledger call.   *)
(***************************************************************************)
EXTENDS Integers, Sequences, FiniteSets, TLC

\* ------------------------------------------------------------------ bounds
MaxCant == 2          \* largest amount a request asks for
MaxStock == 2         \* entries and adjustments are not issued beyond this quantity
MaxMovimientos == 2   \* rows of the movimientos table
MaxEnvios == 1        \* rows of the envios table
MaxLlamadas == 1      \* SpecConc: calls each worker serves

\* ----------------------------------------------------------------- catalog
NULL == 0
Productos == {1}                       \* rows of productos
Localidades == {1, 2}                  \* rows of localidades
LugaresInit == (1 :> 1) @@ (2 :> 2)    \* rows of lugares: id_lugar -> id_localidad
Operadores == {1}                      \* actors who record movements, send and cancel
Receptores == {2}                      \* actors who receive shipments
SesionLocalidad == 1                   \* localidad_id claim of the operator's session
Procs == {1, 2}                        \* SpecConc: requests served at the same time

\* request inputs; 9 is an id with no row
ProductoIds == Productos \cup {9}
LugarIds == DOMAIN LugaresInit \cup {9}
LugarOpcional == DOMAIN LugaresInit \cup {NULL}
LocalidadIds == Localidades \cup {9}
Cantidades == 0..MaxCant
CantidadesNuevas == (-1)..MaxStock
EnvioIds == 1..(MaxEnvios + 1)

VARIABLES
    stock,        \* productos_localidad: set of rows
    envios,       \* envios: sequence of rows, id_envio = index
    movimientos,  \* movimientos: sequence of rows, id_movimiento = index
    auditoria,    \* auditoria: sequence of rows
    lugares,      \* lugares: id_lugar -> id_localidad
    last,         \* the last completed call: operation, arguments, result, returned id
    stock0,       \* productos_localidad before the last step
    envios0,      \* envios before the last step
    movimientos0, \* movimientos before the last step
    auditoria0,   \* auditoria before the last step
    previo,       \* the call completed before the last one, when it created a shipment
                  \* or credited the ledger directly
    proc,         \* SpecConc: the requests in flight
    fallaAuditoria, \* SpecAudit: the INSERT INTO auditoria raises
    activo        \* productos.activo: id_producto -> BOOLEAN

vars == <<stock, envios, movimientos, auditoria, lugares, last, stock0, envios0,
          movimientos0, auditoria0, previo, proc, fallaAuditoria, activo>>

\* ------------------------------------------------- ProductoLocalidadDAO
Filas(st, p, l) == {r \in st : r.id_producto = p /\ r.id_lugar = l}

\* SELECT COALESCE(cantidad, 0) ... fetchone(); 0 when there is no row
\* mutant: the first row of the product is read, whatever its place
get_stock_SinLugar(st, p, l) ==
    IF {r \in st : r.id_producto = p} = {} THEN 0
    ELSE (CHOOSE r \in {r \in st : r.id_producto = p} : TRUE).cantidad

get_stock(st, p, l) ==
    IF Filas(st, p, l) = {} THEN 0
    ELSE (CHOOSE r \in Filas(st, p, l) : TRUE).cantidad

\* mutant: the WHERE clause leaves out id_lugar
UpdateCantidad_SinLugar(st, p, l, d) ==
    {IF r.id_producto = p THEN [r EXCEPT !.cantidad = @ + d] ELSE r : r \in st}

\* UPDATE productos_localidad SET cantidad = cantidad + d WHERE id_producto, id_lugar
UpdateCantidad(st, p, l, d) ==
    {IF r.id_producto = p /\ r.id_lugar = l
        THEN [r EXCEPT !.cantidad = @ + d] ELSE r : r \in st}

\* INSERT INTO productos_localidad (primary key id_producto, id_localidad, id_lugar)
InsertStock(st, lg, p, l, n) ==
    IF \E r \in st : r.id_producto = p /\ r.id_localidad = lg[l] /\ r.id_lugar = l
    THEN [st |-> st, err |-> "Internal"]
    ELSE [st |-> st \cup {[id_producto |-> p, id_localidad |-> lg[l],
                           id_lugar |-> l, cantidad |-> n]},
          err |-> "ok"]

\* mutant: the UPDATE assigns the amount instead of adding it
sumar_stock_Asigna(st, lg, p, l, n) ==
    IF Filas(st, p, l) # {}
    THEN [st |-> {IF r.id_producto = p /\ r.id_lugar = l
                     THEN [r EXCEPT !.cantidad = n] ELSE r : r \in st},
          err |-> "ok"]
    ELSE IF l \notin DOMAIN lg
         THEN [st |-> st, err |-> "NotFound"]
         ELSE InsertStock(st, lg, p, l, n)

sumar_stock(st, lg, p, l, n) ==
    IF Filas(st, p, l) # {}
    THEN [st |-> UpdateCantidad(st, p, l, n), err |-> "ok"]
    ELSE IF l \notin DOMAIN lg
         THEN [st |-> st, err |-> "NotFound"]
         ELSE InsertStock(st, lg, p, l, n)

\* mutant: no check of the quantity on hand
restar_stock_SinValidar(st, p, l, n) ==
    [st |-> UpdateCantidad(st, p, l, -n), err |-> "ok"]

restar_stock(st, p, l, n) ==
    IF get_stock(st, p, l) < n
    THEN [st |-> st, err |-> "InsufficientStock"]
    ELSE [st |-> UpdateCantidad(st, p, l, -n), err |-> "ok"]

\* mutant: the origin is debited and the destination is never credited
transferir_stock_SinSumar(st, lg, p, lo, ld, n) ==
    IF get_stock(st, p, lo) < n
    THEN [st |-> st, err |-> "InsufficientStock"]
    ELSE restar_stock(st, p, lo, n)

transferir_stock(st, lg, p, lo, ld, n) ==
    IF get_stock(st, p, lo) < n
    THEN [st |-> st, err |-> "InsufficientStock"]
    ELSE LET d == restar_stock(st, p, lo, n)
         IN  IF d.err # "ok" THEN d ELSE sumar_stock(d.st, lg, p, ld, n)

\* cursor.rowcount after an UPDATE: the rows matched when the connection sets
\* CLIENT.FOUND_ROWS (TRUE), the rows whose value changed otherwise (FALSE)
ClientFoundRows == BOOLEAN

Rowcount(st, p, l, nueva, fr) ==
    IF fr THEN Cardinality(Filas(st, p, l))
    ELSE Cardinality({r \in Filas(st, p, l) : r.cantidad # nueva})

\* UPDATE ... SET cantidad = nueva; INSERT when cursor.rowcount == 0
ajustar_stock(st, lg, p, l, nueva, fr) ==
    IF Rowcount(st, p, l, nueva, fr) # 0
    THEN [st |-> {IF r.id_producto = p /\ r.id_lugar = l
                     THEN [r EXCEPT !.cantidad = nueva] ELSE r : r \in st},
          err |-> "ok"]
    ELSE IF l \notin DOMAIN lg
         THEN [st |-> st, err |-> "Internal"]
         ELSE InsertStock(st, lg, p, l, nueva)

RECURSIVE SumaFilas(_)
\* the sum of the quantities of a set of stock records
SumaFilas(S) ==
    IF S = {} THEN 0
    ELSE LET r == CHOOSE x \in S : TRUE IN r.cantidad + SumaFilas(S \ {r})

\* ------------------------------------------------------------ ProductoDAO
\* SELECT COALESCE(SUM(cantidad), 0) FROM productos_localidad WHERE id_producto = p
get_stock_total(st, p) == SumaFilas({r \in st : r.id_producto = p})

\* ------------------------------------------------------------- EnvioDAO
\* mutant: the INSERT writes the state en_transito
EnvioRow_EnTransito(p, n, u, locO, locD, lo, ld) ==
    [id_producto |-> p, cantidad |-> n, id_usuario_envia |-> u,
     id_usuario_recibe |-> NULL, localidad_origen |-> locO,
     localidad_destino |-> locD, lugar_origen |-> lo, lugar_destino |-> ld,
     estado |-> "en_transito"]

\* mutant: the two place columns are swapped in the INSERT
EnvioRow_LugaresCambiados(p, n, u, locO, locD, lo, ld) ==
    [id_producto |-> p, cantidad |-> n, id_usuario_envia |-> u,
     id_usuario_recibe |-> NULL, localidad_origen |-> locO,
     localidad_destino |-> locD, lugar_origen |-> ld, lugar_destino |-> lo,
     estado |-> "enviado"]

EnvioRow(p, n, u, locO, locD, lo, ld) ==
    [id_producto |-> p, cantidad |-> n, id_usuario_envia |-> u,
     id_usuario_recibe |-> NULL, localidad_origen |-> locO,
     localidad_destino |-> locD, lugar_origen |-> lo, lugar_destino |-> ld,
     estado |-> "enviado"]

\* mutant: the UPDATE matches the shipment whatever its state
MarcarRecibidoWhere_SinEstado(e) == TRUE

\* WHERE id_envio = %s AND estado IN ('enviado', 'en_transito')
MarcarRecibidoWhere(e) == e.estado \in {"enviado", "en_transito"}

\* WHERE id_envio = %s AND estado != 'recibido'
CancelarWhere(e) == e.estado # "recibido"

\* mutant: the UPDATE does not set lugar_destino
marcar_recibido_SinLugar(env, id, u, ld) ==
    IF id \in DOMAIN env /\ MarcarRecibidoWhere(env[id])
    THEN [env |-> [env EXCEPT ![id].estado = "recibido",
                              ![id].id_usuario_recibe = u],
          success |-> TRUE]
    ELSE [env |-> env, success |-> FALSE]

\* returns the table and rowcount > 0
marcar_recibido(env, id, u, ld) ==
    IF id \in DOMAIN env /\ MarcarRecibidoWhere(env[id])
    THEN [env |-> [env EXCEPT ![id].estado = "recibido",
                              ![id].id_usuario_recibe = u,
                              ![id].lugar_destino = ld],
          success |-> TRUE]
    ELSE [env |-> env, success |-> FALSE]

\* returns the table and rowcount > 0.  On a row that is already cancelado the
\* UPDATE matches and rewrites fecha_cancelacion = NOW(): rowcount is 1 when
\* that changes the row or the connection counts matched rows (cambia), and 0
\* when the row keeps every value and the connection counts changed rows
cancelar(env, id, cambia) ==
    IF id \in DOMAIN env /\ CancelarWhere(env[id])
    THEN [env |-> [env EXCEPT ![id].estado = "cancelado"],
          success |-> cambia \/ env[id].estado # "cancelado"]
    ELSE [env |-> env, success |-> FALSE]

\* --------------------------------------------- MovimientoDAO, AuditoriaDAO
MovRow(tipo, n, p, u, loc, lo, ld) ==
    [tipo |-> tipo, cantidad |-> n, id_producto |-> p, id_usuario |-> u,
     id_localidad |-> loc, lugar_origen |-> lo, lugar_destino |-> ld]

AudRow(entidad, id, accion, u) ==
    [entidad |-> entidad, id_entidad |-> id, accion |-> accion, id_usuario |-> u]


\* ------------------------------------------------ outcome of a call
Args(p, n, lo, ld, locD, id, u) ==
    [p |-> p, n |-> n, lo |-> lo, ld |-> ld, locD |-> locD, id |-> id, u |-> u]

Result(op, a, res, id) == [op |-> op, a |-> a, res |-> res, id |-> id]

NoArgs == Args(NULL, 0, NULL, NULL, NULL, 0, NULL)
NoPrevio == [op |-> "none", id |-> 0, stock |-> {}, a |-> NoArgs]

\* the call returns (res = "ok") or raises; the history variables follow
Return(op, a, res, id) ==
    /\ last' = Result(op, a, res, id)
    /\ stock0' = stock
    /\ envios0' = envios
    /\ movimientos0' = movimientos
    /\ auditoria0' = auditoria
    /\ previo' = IF last.op \in {"crear_envio", "sumar_stock"} /\ last.res = "ok"
                 THEN [op |-> last.op, id |-> last.id, stock |-> stock0, a |-> last.a]
                 ELSE NoPrevio
    /\ UNCHANGED <<lugares, proc, fallaAuditoria, activo>>

\* the call raised before writing anything
Raise(op, a, err) ==
    /\ Return(op, a, err, 0)
    /\ UNCHANGED <<stock, envios, movimientos, auditoria>>

\* ------------------------------------------------------ MovimientoService
\* _validate_movimiento_data; the place keys are always present in the request
ValidateMovimiento(p, n) == p # NULL /\ n > 0

\* mutant: a negative new quantity is accepted
ValidateAjuste_SinMinimo(nueva) == TRUE

\* crear_ajuste: 'cantidad_nueva' present and not negative
ValidateAjuste(nueva) == nueva >= 0

\* mutant: what the call wrote is undone when the audit write raises
Registrar_Revierte(op, a, mov, accion, r) ==
    /\ envios' = envios
    /\ IF r.err = "ok" /\ fallaAuditoria
       THEN /\ movimientos' = movimientos
            /\ stock' = stock
            /\ auditoria' = auditoria
            /\ Return(op, a, "AuditoriaError", 0)
       ELSE /\ movimientos' = Append(movimientos, mov)
            /\ stock' = r.st
            /\ IF r.err = "ok"
               THEN /\ auditoria' = Append(auditoria,
                                  AudRow("Movimiento", Len(movimientos) + 1, accion, a.u))
                    /\ Return(op, a, "ok", Len(movimientos) + 1)
               ELSE /\ auditoria' = auditoria
                    /\ Return(op, a, r.err, 0)

\* the movement row is inserted, then the ledger call returns r and the audit
\* row is written; an exception of AuditoriaDAO.create propagates to the caller
Registrar(op, a, mov, accion, r) ==
    /\ movimientos' = Append(movimientos, mov)
    /\ stock' = r.st
    /\ envios' = envios
    /\ IF r.err # "ok"
       THEN /\ auditoria' = auditoria
            /\ Return(op, a, r.err, 0)
       ELSE IF fallaAuditoria
       THEN /\ auditoria' = auditoria
            /\ Return(op, a, "AuditoriaError", 0)
       ELSE /\ auditoria' = Append(auditoria,
                                   AudRow("Movimiento", Len(movimientos) + 1, accion, a.u))
            /\ Return(op, a, "ok", Len(movimientos) + 1)

crear_entrada(p, n, ld, u, loc) ==
    LET a == Args(p, n, NULL, ld, NULL, 0, u) IN
    /\ Len(movimientos) < MaxMovimientos
    /\ get_stock(stock, p, ld) + n <= MaxStock
    /\ IF ~ValidateMovimiento(p, n) THEN Raise("crear_entrada", a, "InvalidArgument")
       ELSE IF p \notin Productos THEN Raise("crear_entrada", a, "NotFound")
       ELSE IF ld \notin DOMAIN lugares THEN Raise("crear_entrada", a, "NotFound")
       ELSE Registrar("crear_entrada", a, MovRow("entrada", n, p, u, loc, NULL, ld),
                      "create", sumar_stock(stock, lugares, p, ld, n))

crear_salida(p, n, lo, u, loc) ==
    LET a == Args(p, n, lo, NULL, NULL, 0, u) IN
    /\ Len(movimientos) < MaxMovimientos
    /\ IF ~ValidateMovimiento(p, n) THEN Raise("crear_salida", a, "InvalidArgument")
       ELSE IF p \notin Productos THEN Raise("crear_salida", a, "NotFound")
       ELSE IF lo \notin DOMAIN lugares THEN Raise("crear_salida", a, "NotFound")
       ELSE IF get_stock(stock, p, lo) < n
            THEN Raise("crear_salida", a, "InsufficientStock")
       ELSE Registrar("crear_salida", a, MovRow("salida", n, p, u, loc, lo, NULL),
                      "create", restar_stock(stock, p, lo, n))

\* mutant: a transfer from a place to itself is accepted
MismoLugar_Nunca(lo, ld) == FALSE

\* crear_transferencia: origin and destination are the same place
MismoLugar(lo, ld) == lo = ld

crear_transferencia(p, n, lo, ld, u, loc) ==
    LET a == Args(p, n, lo, ld, NULL, 0, u) IN
    /\ Len(movimientos) < MaxMovimientos
    /\ IF ~ValidateMovimiento(p, n) THEN Raise("crear_transferencia", a, "InvalidArgument")
       ELSE IF p \notin Productos THEN Raise("crear_transferencia", a, "NotFound")
       ELSE IF lo \notin DOMAIN lugares THEN Raise("crear_transferencia", a, "NotFound")
       ELSE IF ld \notin DOMAIN lugares THEN Raise("crear_transferencia", a, "NotFound")
       ELSE IF MismoLugar(lo, ld) THEN Raise("crear_transferencia", a, "InvalidArgument")
       ELSE IF get_stock(stock, p, lo) < n
            THEN Raise("crear_transferencia", a, "InsufficientStock")
       ELSE Registrar("crear_transferencia", a,
                      MovRow("transferencia", n, p, u, loc, lo, ld),
                      "create", transferir_stock(stock, lugares, p, lo, ld, n))

\* mutant: the difference keeps its sign
Abs_ConSigno(x) == x

Abs(x) == IF x < 0 THEN -x ELSE x

crear_ajuste(p, l, nueva, u, loc, fr) ==
    LET a == Args(p, nueva, l, NULL, NULL, 0, u) IN
    /\ Len(movimientos) < MaxMovimientos
    /\ IF ~ValidateAjuste(nueva) THEN Raise("crear_ajuste", a, "InvalidArgument")
       ELSE IF p \notin Productos THEN Raise("crear_ajuste", a, "NotFound")
       ELSE IF l \notin DOMAIN lugares THEN Raise("crear_ajuste", a, "NotFound")
       ELSE LET diferencia == nueva - get_stock(stock, p, l)
            IN  Registrar("crear_ajuste", a,
                          MovRow("ajuste", Abs(diferencia), p, u, loc,
                                 IF diferencia < 0 THEN l ELSE NULL,
                                 IF diferencia > 0 THEN l ELSE NULL),
                          "ajuste", ajustar_stock(stock, lugares, p, l, nueva, fr))

\* ------------------------------------------------------------ EnvioService
\* _validate_envio_data: the required fields are non-empty and cantidad > 0
ValidateEnvio(p, n, locD, lo) == p # NULL /\ locD # NULL /\ lo # NULL /\ n > 0

\* mutant: a shipment within one location is accepted
MismaLocalidad_Nunca(lg, lo, locD) == FALSE

\* crear_envio: the origin place belongs to the destination location
MismaLocalidad(lg, lo, locD) == lg[lo] = locD

\* mutant: the service does not compare the stock with the amount
EnvioSinStock_Nunca(st, p, lo, n) == FALSE

\* crear_envio: the stock at the origin place is below the amount
EnvioSinStock(st, p, lo, n) == get_stock(st, p, lo) < n

\* recibir_envio: the states that make it raise
RecibirRechaza(e) == e.estado = "recibido" \/ e.estado = "cancelado"

\* mutant: any place is accepted as the receiving place
LugarAjeno_Nunca(lg, ld, e) == FALSE

\* recibir_envio: the receiving place is not of the shipment's destination location
LugarAjeno(lg, ld, e) == lg[ld] # e.localidad_destino

\* mutant: only a received shipment is refused, as in the UPDATE's WHERE clause
CancelarRechaza_SoloRecibido(e) == e.estado = "recibido"

\* cancelar_envio: the states that make it raise
CancelarRechaza(e) == e.estado = "cancelado" \/ e.estado = "recibido"

\* the shipment table is now env; the ledger call returned r; then the audit row
\* mutant: no audit row is written
Despachar_SinAuditoria(op, a, id, accion, env, r) ==
    /\ envios' = env
    /\ stock' = r.st
    /\ movimientos' = movimientos
    /\ auditoria' = auditoria
    /\ IF r.err = "ok" THEN Return(op, a, "ok", id) ELSE Return(op, a, r.err, 0)

Despachar(op, a, id, accion, env, r) ==
    /\ envios' = env
    /\ stock' = r.st
    /\ movimientos' = movimientos
    /\ IF r.err # "ok"
       THEN /\ auditoria' = auditoria
            /\ Return(op, a, r.err, 0)
       ELSE IF fallaAuditoria
       THEN /\ auditoria' = auditoria
            /\ Return(op, a, "AuditoriaError", 0)
       ELSE /\ auditoria' = Append(auditoria, AudRow("Envio", id, accion, a.u))
            /\ Return(op, a, "ok", id)

crear_envio(p, n, locD, lo, ld, u) ==
    LET a == Args(p, n, lo, ld, locD, 0, u) IN
    /\ Len(envios) < MaxEnvios
    /\ IF ~ValidateEnvio(p, n, locD, lo) THEN Raise("crear_envio", a, "InvalidArgument")
       ELSE IF p \notin Productos THEN Raise("crear_envio", a, "NotFound")
       ELSE IF lo \notin DOMAIN lugares THEN Raise("crear_envio", a, "NotFound")
       ELSE IF locD \notin Localidades THEN Raise("crear_envio", a, "NotFound")
       ELSE IF MismaLocalidad(lugares, lo, locD)
            THEN Raise("crear_envio", a, "InvalidArgument")
       ELSE IF EnvioSinStock(stock, p, lo, n)
            THEN Raise("crear_envio", a, "InsufficientStock")
       ELSE Despachar("crear_envio", a, Len(envios) + 1, "envio",
                      Append(envios, EnvioRow(p, n, u, lugares[lo], locD, lo, ld)),
                      restar_stock(stock, p, lo, n))

recibir_envio(id, u, ld) ==
    LET a == Args(NULL, 0, NULL, ld, NULL, id, u) IN
    IF id \notin DOMAIN envios THEN Raise("recibir_envio", a, "NotFound")
    ELSE IF RecibirRechaza(envios[id]) THEN Raise("recibir_envio", a, "InvalidState")
    ELSE IF ld \notin DOMAIN lugares THEN Raise("recibir_envio", a, "NotFound")
    ELSE IF LugarAjeno(lugares, ld, envios[id])
         THEN Raise("recibir_envio", a, "InvalidArgument")
    ELSE LET m == marcar_recibido(envios, id, u, ld)
         IN  IF m.success
             THEN Despachar("recibir_envio", a, id, "recepcion", m.env,
                            sumar_stock(stock, lugares, envios[id].id_producto,
                                        ld, envios[id].cantidad))
             ELSE Raise("recibir_envio", a, "false")

cancelar_envio(id, u) ==
    LET a == Args(NULL, 0, NULL, NULL, NULL, id, u) IN
    IF id \notin DOMAIN envios THEN Raise("cancelar_envio", a, "NotFound")
    ELSE IF CancelarRechaza(envios[id]) THEN Raise("cancelar_envio", a, "InvalidState")
    ELSE LET m == cancelar(envios, id, TRUE)
         IN  IF m.success
             THEN Despachar("cancelar_envio", a, id, "cancelacion", m.env,
                            sumar_stock(stock, lugares, envios[id].id_producto,
                                        envios[id].lugar_origen, envios[id].cantidad))
             ELSE Raise("cancelar_envio", a, "false")

\* ------------------------------------------------------------------- Spec
\* a request being served: where it is, its call, what it has read so far
Pr(pc, op, a, leido, e, id, res, k) ==
    [pc |-> pc, op |-> op, a |-> a, leido |-> leido, e |-> e, id |-> id,
     res |-> res, k |-> k]

NoEnvio == EnvioRow(NULL, 0, NULL, NULL, NULL, NULL, NULL)

Idle == Pr("idle", "none", NoArgs, 0, NoEnvio, 0, "none", 0)

Init ==
    /\ stock = {}
    /\ envios = <<>>
    /\ movimientos = <<>>
    /\ auditoria = <<>>
    /\ lugares = LugaresInit
    /\ last = Result("none", NoArgs, "none", 0)
    /\ stock0 = {}
    /\ envios0 = <<>>
    /\ movimientos0 = <<>>
    /\ auditoria0 = <<>>
    /\ previo = NoPrevio
    /\ proc = [i \in Procs |-> Idle]
    /\ fallaAuditoria = FALSE
    /\ activo = [p \in Productos |-> TRUE]

\* requests carry at most one field that fails validation or names no row
Malo(b) == IF b THEN 1 ELSE 0

Malos(p, n, ls, locs) ==
    Malo(p \notin Productos) + Malo(n <= 0)
    + Malo(\E i \in DOMAIN ls : ls[i] \notin DOMAIN LugaresInit)
    + Malo(\E x \in locs : x \notin Localidades)

Entrada ==
    \E p \in ProductoIds, n \in Cantidades, ld \in LugarIds, u \in Operadores :
        /\ Malos(p, n, <<ld>>, {}) <= 1
        /\ crear_entrada(p, n, ld, u, SesionLocalidad)
Salida ==
    \E p \in ProductoIds, n \in Cantidades, lo \in LugarIds, u \in Operadores :
        /\ Malos(p, n, <<lo>>, {}) <= 1
        /\ crear_salida(p, n, lo, u, SesionLocalidad)
Transferencia ==
    \E p \in ProductoIds, n \in Cantidades, lo \in LugarIds, ld \in LugarIds,
       u \in Operadores :
        /\ Malos(p, n, <<lo, ld>>, {}) <= 1
        /\ crear_transferencia(p, n, lo, ld, u, SesionLocalidad)
Ajuste ==
    \E p \in ProductoIds, l \in LugarIds, nueva \in CantidadesNuevas, u \in Operadores,
       fr \in ClientFoundRows :
        /\ Malos(p, nueva + 1, <<l>>, {}) <= 1
        /\ crear_ajuste(p, l, nueva, u, SesionLocalidad, fr)
CrearEnvio ==
    \E p \in ProductoIds, n \in Cantidades, locD \in LocalidadIds, lo \in LugarIds,
       ld \in LugarOpcional, u \in Operadores :
        /\ Malos(p, n, <<lo>>, {locD}) <= 1
        /\ crear_envio(p, n, locD, lo, ld, u)
RecibirEnvio ==
    \E id \in EnvioIds, u \in Receptores, ld \in LugarIds : recibir_envio(id, u, ld)
CancelarEnvio ==
    \E id \in EnvioIds, u \in Operadores : cancelar_envio(id, u)

Next ==
    \/ Entrada
    \/ Salida
    \/ Transferencia
    \/ Ajuste
    \/ CrearEnvio
    \/ RecibirEnvio
    \/ CancelarEnvio

Spec == Init /\ [][Next]_vars

\* -------------------------------------------------------------- SpecAudit
\* the same calls while every INSERT INTO auditoria raises
InitAudit ==
    /\ stock = {}
    /\ envios = <<>>
    /\ movimientos = <<>>
    /\ auditoria = <<>>
    /\ lugares = LugaresInit
    /\ last = Result("none", NoArgs, "none", 0)
    /\ stock0 = {}
    /\ envios0 = <<>>
    /\ movimientos0 = <<>>
    /\ auditoria0 = <<>>
    /\ previo = NoPrevio
    /\ proc = [i \in Procs |-> Idle]
    /\ fallaAuditoria = TRUE
    /\ activo = [p \in Productos |-> TRUE]

SpecAudit == InitAudit /\ [][Next]_vars

\* ------------------------------------------------------------- SpecLedger
\* a ledger primitive called directly: it returned r
Ledger(op, a, r) ==
    /\ stock' = r.st
    /\ UNCHANGED <<envios, movimientos, auditoria>>
    /\ Return(op, a, r.err, 0)

\* the amounts a caller of the DAO can pass to sumar_stock and restar_stock
Montos == (-1)..MaxCant

Sumar ==
    \E p \in Productos, l \in LugarIds, n \in Montos :
        /\ get_stock(stock, p, l) + n <= MaxStock
        /\ Ledger("sumar_stock", Args(p, n, NULL, l, NULL, 0, NULL),
                  sumar_stock(stock, lugares, p, l, n))
Restar ==
    \E p \in Productos, l \in LugarIds, n \in Montos :
        Ledger("restar_stock", Args(p, n, l, NULL, NULL, 0, NULL),
               restar_stock(stock, p, l, n))
Transferir ==
    \E p \in Productos, lo \in LugarIds, ld \in LugarIds, n \in Cantidades :
        Ledger("transferir_stock", Args(p, n, lo, ld, NULL, 0, NULL),
               transferir_stock(stock, lugares, p, lo, ld, n))
Ajustar ==
    \E p \in Productos, l \in DOMAIN LugaresInit, nueva \in 0..MaxStock,
       fr \in ClientFoundRows :
        Ledger("ajustar_stock", Args(p, nueva, l, NULL, NULL, 0, NULL),
               ajustar_stock(stock, lugares, p, l, nueva, fr))

\* the ledgers init_stock can set up: at most one row per product and place
StockRow(p, l, n) ==
    [id_producto |-> p, id_localidad |-> LugaresInit[l], id_lugar |-> l, cantidad |-> n]

Ledgers ==
    {st \in SUBSET {StockRow(p, l, n) :
                      p \in Productos, l \in DOMAIN LugaresInit, n \in 0..MaxStock} :
        \A r1, r2 \in st :
            r1.id_producto = r2.id_producto /\ r1.id_lugar = r2.id_lugar => r1 = r2}

InitLedger ==
    /\ stock \in Ledgers
    /\ envios = <<>>
    /\ movimientos = <<>>
    /\ auditoria = <<>>
    /\ lugares = LugaresInit
    /\ last = Result("none", NoArgs, "none", 0)
    /\ stock0 = stock
    /\ envios0 = <<>>
    /\ movimientos0 = <<>>
    /\ auditoria0 = <<>>
    /\ previo = NoPrevio
    /\ proc = [i \in Procs |-> Idle]
    /\ fallaAuditoria = FALSE
    /\ activo = [p \in Productos |-> TRUE]

\* one call is applied to each ledger
Primera == last.op = "none"

LedgerEntrada == Primera /\ Entrada
LedgerSalida == Primera /\ Salida
LedgerTransferencia == Primera /\ Transferencia
LedgerAjuste == Primera /\ Ajuste
LedgerSumar == Primera /\ Sumar
LedgerRestar == Primera /\ Restar
LedgerTransferir == Primera /\ Transferir
LedgerAjustar == Primera /\ Ajustar

\* a debit follows a direct credit
LedgerRestarTrasSumar == last.op = "sumar_stock" /\ last.res = "ok" /\ Restar

NextLedger ==
    \/ LedgerEntrada
    \/ LedgerSalida
    \/ LedgerTransferencia
    \/ LedgerAjuste
    \/ LedgerSumar
    \/ LedgerRestar
    \/ LedgerTransferir
    \/ LedgerAjustar
    \/ LedgerRestarTrasSumar

SpecLedger == InitLedger /\ [][NextLedger]_vars

\* --------------------------------------------------------------- SpecConc
\* Two requests are served at the same time.  A step is one SQL statement on
\* productos_localidad, envios, movimientos or auditoria, together with the
\* Python that follows it up to the next statement; every statement takes
\* effect when it is executed (no statement of these calls takes a lock).

\* the calls a worker can be asked to serve: stock leaves place 1 for localidad 2
Llamadas ==
    {<<"crear_entrada", Args(1, n, NULL, 1, NULL, 0, 1)>> : n \in 1..MaxCant}
    \cup {<<"crear_salida", Args(1, n, 1, NULL, NULL, 0, 1)>> : n \in 1..MaxCant}
    \cup {<<"crear_transferencia", Args(1, n, 1, 2, NULL, 0, 1)>> : n \in 1..MaxCant}
    \cup {<<"crear_ajuste", Args(1, nueva, 1, NULL, NULL, 0, 1)>> : nueva \in 0..MaxStock}
    \cup {<<"crear_envio", Args(1, n, 1, NULL, 2, 0, 1)>> : n \in 1..MaxCant}
    \cup {<<"recibir_envio", Args(NULL, 0, NULL, 2, NULL, id, 2)>> : id \in 1..MaxEnvios}
    \cup {<<"cancelar_envio", Args(NULL, 0, NULL, NULL, NULL, id, 1)>> : id \in 1..MaxEnvios}
    \cup {<<"delete", Args(1, 0, NULL, NULL, NULL, 0, 1)>>}

\* product, amount and place of the call's credit
Prod(q) == IF q.op \in {"recibir_envio", "cancelar_envio"} THEN q.e.id_producto ELSE q.a.p
Cant(q) == IF q.op \in {"recibir_envio", "cancelar_envio"} THEN q.e.cantidad ELSE q.a.n
LugarSuma(q) == IF q.op = "cancelar_envio" THEN q.e.lugar_origen ELSE q.a.ld

Historia ==
    /\ stock0' = stock
    /\ envios0' = envios
    /\ movimientos0' = movimientos
    /\ auditoria0' = auditoria
    /\ UNCHANGED <<lugares, last, previo, fallaAuditoria, activo>>

Pasa(i, pc) == proc' = [proc EXCEPT ![i].pc = pc]
Termina(i, res) == proc' = [proc EXCEPT ![i].pc = "done", ![i].res = res]

\* a shipment is created while no other request is in flight
Preparar ==
    /\ \A i \in Procs : proc[i] = Idle
    /\ \E n \in 1..MaxCant : crear_envio(1, n, 2, 1, NULL, 1)

\* the request arrives: validation and the catalog lookups
Iniciar(i) ==
    /\ proc[i].pc = "idle"
    /\ proc[i].k < MaxLlamadas
    /\ \E c \in Llamadas :
         proc' = [proc EXCEPT ![i] =
                    Pr(CASE c[1] = "crear_entrada" -> "insert"
                         [] c[1] = "crear_ajuste" -> "ajuste_get"
                         [] c[1] = "delete" -> "stock_total"
                         [] c[1] \in {"recibir_envio", "cancelar_envio"} -> "get_envio"
                         [] OTHER -> "get_stock",
                       c[1], c[2], 0, NoEnvio, 0, "none", proc[i].k + 1)]
    /\ UNCHANGED <<stock, envios, movimientos, auditoria>>
    /\ Historia

\* crear_ajuste reads the stock on hand
LeerAjuste(i) ==
    /\ proc[i].pc = "ajuste_get"
    /\ proc' = [proc EXCEPT ![i].pc = "insert",
                            ![i].leido = get_stock(stock, proc[i].a.p, proc[i].a.lo)]
    /\ UNCHANGED <<stock, envios, movimientos, auditoria>>
    /\ Historia

\* ajustar_stock overwrites the quantity and looks at cursor.rowcount
AjustarUpd(i) ==
    /\ proc[i].pc = "ajustar_upd"
    /\ \E fr \in ClientFoundRows :
         LET q == proc[i] IN
         /\ stock' = {IF r.id_producto = q.a.p /\ r.id_lugar = q.a.lo
                         THEN [r EXCEPT !.cantidad = q.a.n] ELSE r : r \in stock}
         /\ Pasa(i, IF Rowcount(stock, q.a.p, q.a.lo, q.a.n, fr) # 0
                    THEN "audit" ELSE "ajustar_ins")
    /\ UNCHANGED <<envios, movimientos, auditoria>>
    /\ Historia

\* ajustar_stock saw rowcount 0: it looks the place up and inserts the record
AjustarIns(i) ==
    /\ proc[i].pc = "ajustar_ins"
    /\ LET q == proc[i]
           r == IF q.a.lo \notin DOMAIN lugares
                THEN [st |-> stock, err |-> "Internal"]
                ELSE InsertStock(stock, lugares, q.a.p, q.a.lo, q.a.n)
       IN  /\ stock' = r.st
           /\ IF r.err = "ok" THEN Pasa(i, "audit") ELSE Termina(i, r.err)
    /\ UNCHANGED <<envios, movimientos, auditoria>>
    /\ Historia

\* the service reads the stock on hand and compares it with the amount
LeerStock(i) ==
    /\ proc[i].pc = "get_stock"
    /\ LET v == get_stock(stock, proc[i].a.p, proc[i].a.lo) IN
       IF v < proc[i].a.n
       THEN Termina(i, "InsufficientStock")
       ELSE proc' = [proc EXCEPT ![i].pc = "insert", ![i].leido = v]
    /\ UNCHANGED <<stock, envios, movimientos, auditoria>>
    /\ Historia

\* MovimientoDAO.create or EnvioDAO.create
Insertar(i) ==
    /\ proc[i].pc = "insert"
    /\ LET q == proc[i] IN
       IF q.op = "crear_envio"
       THEN /\ Len(envios) < MaxEnvios
            /\ envios' = Append(envios, EnvioRow(q.a.p, q.a.n, q.a.u, lugares[q.a.lo],
                                                 q.a.locD, q.a.lo, q.a.ld))
            /\ movimientos' = movimientos
            /\ proc' = [proc EXCEPT ![i].pc = "restar_get", ![i].id = Len(envios) + 1]
       ELSE /\ Len(movimientos) < MaxMovimientos
            /\ movimientos' = Append(movimientos,
                   IF q.op = "crear_ajuste"
                   THEN LET diferencia == q.a.n - q.leido IN
                        MovRow("ajuste", Abs(diferencia), q.a.p, q.a.u, SesionLocalidad,
                               IF diferencia < 0 THEN q.a.lo ELSE NULL,
                               IF diferencia > 0 THEN q.a.lo ELSE NULL)
                   ELSE
                   MovRow(CASE q.op = "crear_entrada" -> "entrada"
                            [] q.op = "crear_salida" -> "salida"
                            [] OTHER -> "transferencia",
                          q.a.n, q.a.p, q.a.u, SesionLocalidad, q.a.lo, q.a.ld))
            /\ envios' = envios
            /\ proc' = [proc EXCEPT
                          ![i].pc = CASE q.op = "crear_entrada" -> "sumar_sel"
                                      [] q.op = "crear_salida" -> "restar_get"
                                      [] q.op = "crear_ajuste" -> "ajustar_upd"
                                      [] OTHER -> "transferir_get",
                          ![i].id = Len(movimientos) + 1]
    /\ UNCHANGED <<stock, auditoria>>
    /\ Historia

\* transferir_stock reads the origin's stock
TransferirGet(i) ==
    /\ proc[i].pc = "transferir_get"
    /\ IF get_stock(stock, proc[i].a.p, proc[i].a.lo) < proc[i].a.n
       THEN Termina(i, "InsufficientStock")
       ELSE Pasa(i, "restar_get")
    /\ UNCHANGED <<stock, envios, movimientos, auditoria>>
    /\ Historia

\* restar_stock reads the stock
RestarGet(i) ==
    /\ proc[i].pc = "restar_get"
    /\ IF get_stock(stock, proc[i].a.p, proc[i].a.lo) < proc[i].a.n
       THEN Termina(i, "InsufficientStock")
       ELSE Pasa(i, "restar_upd")
    /\ UNCHANGED <<stock, envios, movimientos, auditoria>>
    /\ Historia

\* restar_stock updates the row
RestarUpd(i) ==
    /\ proc[i].pc = "restar_upd"
    /\ stock' = UpdateCantidad(stock, proc[i].a.p, proc[i].a.lo, -proc[i].a.n)
    /\ Pasa(i, IF proc[i].op = "crear_transferencia" THEN "sumar_sel" ELSE "audit")
    /\ UNCHANGED <<envios, movimientos, auditoria>>
    /\ Historia

\* EnvioDAO.get_by_id and the checks of the row it returned
LeerEnvio(i) ==
    /\ proc[i].pc = "get_envio"
    /\ LET q == proc[i] IN
       IF q.a.id \notin DOMAIN envios THEN Termina(i, "NotFound")
       ELSE LET e == envios[q.a.id] IN
            IF q.op = "recibir_envio"
            THEN IF RecibirRechaza(e) THEN Termina(i, "InvalidState")
                 ELSE IF q.a.ld \notin DOMAIN lugares THEN Termina(i, "NotFound")
                 ELSE IF LugarAjeno(lugares, q.a.ld, e)
                      THEN Termina(i, "InvalidArgument")
                 ELSE proc' = [proc EXCEPT ![i].pc = "marcar", ![i].e = e]
            ELSE IF CancelarRechaza(e) THEN Termina(i, "InvalidState")
                 ELSE proc' = [proc EXCEPT ![i].pc = "cancelar", ![i].e = e]
    /\ UNCHANGED <<stock, envios, movimientos, auditoria>>
    /\ Historia

\* EnvioDAO.marcar_recibido
Marcar(i) ==
    /\ proc[i].pc = "marcar"
    /\ LET m == marcar_recibido(envios, proc[i].a.id, proc[i].a.u, proc[i].a.ld) IN
       /\ envios' = m.env
       /\ IF m.success THEN Pasa(i, "sumar_sel") ELSE Termina(i, "false")
    /\ UNCHANGED <<stock, movimientos, auditoria>>
    /\ Historia

\* EnvioDAO.cancelar
Cancelar(i) ==
    /\ proc[i].pc = "cancelar"
    /\ \E cambia \in BOOLEAN :
         LET m == cancelar(envios, proc[i].a.id, cambia) IN
         /\ envios' = m.env
         /\ IF m.success THEN Pasa(i, "sumar_sel") ELSE Termina(i, "false")
    /\ UNCHANGED <<stock, movimientos, auditoria>>
    /\ Historia

\* sumar_stock looks for the row
SumarSel(i) ==
    /\ proc[i].pc = "sumar_sel"
    /\ Pasa(i, IF Filas(stock, Prod(proc[i]), LugarSuma(proc[i])) # {}
               THEN "sumar_upd" ELSE "sumar_ins")
    /\ UNCHANGED <<stock, envios, movimientos, auditoria>>
    /\ Historia

\* sumar_stock updates the row it found
SumarUpd(i) ==
    /\ proc[i].pc = "sumar_upd"
    /\ stock' = UpdateCantidad(stock, Prod(proc[i]), LugarSuma(proc[i]), Cant(proc[i]))
    /\ Pasa(i, "audit")
    /\ UNCHANGED <<envios, movimientos, auditoria>>
    /\ Historia

\* sumar_stock found no row: it looks the place up and inserts one
SumarIns(i) ==
    /\ proc[i].pc = "sumar_ins"
    /\ LET l == LugarSuma(proc[i])
           r == IF l \notin DOMAIN lugares
                THEN [st |-> stock, err |-> "NotFound"]
                ELSE InsertStock(stock, lugares, Prod(proc[i]), l, Cant(proc[i]))
       IN  /\ stock' = r.st
           /\ IF r.err = "ok" THEN Pasa(i, "audit") ELSE Termina(i, r.err)
    /\ UNCHANGED <<envios, movimientos, auditoria>>
    /\ Historia

\* ProductoService.delete reads the product's total and refuses when it is > 0
LeerStockTotal(i) ==
    /\ proc[i].pc = "stock_total"
    /\ LET stock_total == get_stock_total(stock, proc[i].a.p) IN
       IF stock_total > 0
       THEN proc' = [proc EXCEPT ![i].pc = "done", ![i].res = "InvalidState",
                                 ![i].leido = stock_total]
       ELSE proc' = [proc EXCEPT ![i].pc = "delete_upd", ![i].leido = stock_total]
    /\ UNCHANGED <<stock, envios, movimientos, auditoria>>
    /\ Historia

\* ProductoDAO.delete: UPDATE productos SET activo = 0; returns rowcount > 0
ProductoDelete(i) ==
    /\ proc[i].pc = "delete_upd"
    /\ \E fr \in ClientFoundRows :
         LET p == proc[i].a.p
             success == fr \/ activo[p]
         IN  /\ activo' = [activo EXCEPT ![p] = FALSE]
             /\ IF success THEN Pasa(i, "audit") ELSE Termina(i, "false")
    /\ stock0' = stock
    /\ envios0' = envios
    /\ movimientos0' = movimientos
    /\ auditoria0' = auditoria
    /\ UNCHANGED <<stock, envios, movimientos, auditoria, lugares, last, previo,
                   fallaAuditoria>>

\* AuditoriaDAO.create, then the call returns
Auditar(i) ==
    /\ proc[i].pc = "audit"
    /\ LET q == proc[i] IN
       auditoria' = IF fallaAuditoria THEN auditoria ELSE Append(auditoria,
           IF q.op = "delete" THEN AudRow("Producto", q.a.p, "delete", q.a.u)
           ELSE IF q.op \in {"crear_envio", "recibir_envio", "cancelar_envio"}
           THEN AudRow("Envio", IF q.op = "crear_envio" THEN q.id ELSE q.a.id,
                       CASE q.op = "crear_envio" -> "envio"
                         [] q.op = "recibir_envio" -> "recepcion"
                         [] OTHER -> "cancelacion",
                       q.a.u)
           ELSE AudRow("Movimiento", q.id,
                       IF q.op = "crear_ajuste" THEN "ajuste" ELSE "create", q.a.u))
    /\ Termina(i, IF fallaAuditoria THEN "AuditoriaError" ELSE "ok")
    /\ UNCHANGED <<stock, envios, movimientos>>
    /\ Historia

NextConc ==
    \/ Preparar
    \/ \E i \in Procs : Iniciar(i)
    \/ \E i \in Procs : LeerStockTotal(i)
    \/ \E i \in Procs : ProductoDelete(i)
    \/ \E i \in Procs : LeerAjuste(i)
    \/ \E i \in Procs : AjustarUpd(i)
    \/ \E i \in Procs : AjustarIns(i)
    \/ \E i \in Procs : LeerStock(i)
    \/ \E i \in Procs : Insertar(i)
    \/ \E i \in Procs : TransferirGet(i)
    \/ \E i \in Procs : RestarGet(i)
    \/ \E i \in Procs : RestarUpd(i)
    \/ \E i \in Procs : LeerEnvio(i)
    \/ \E i \in Procs : Marcar(i)
    \/ \E i \in Procs : Cancelar(i)
    \/ \E i \in Procs : SumarSel(i)
    \/ \E i \in Procs : SumarUpd(i)
    \/ \E i \in Procs : SumarIns(i)
    \/ \E i \in Procs : Auditar(i)

SpecConc == InitLedger /\ [][NextConc]_vars

\* -------------------------------------------------------------- SpecLugar
\* LugarService.update with data = {'id_localidad': loc}: LugarDAO.update runs
\* UPDATE lugares SET id_localidad = loc WHERE id_lugar = l and returns
\* rowcount > 0; the audit row is written when it returned True
ActualizarLugar ==
    \E l \in LugarIds, loc \in Localidades, u \in Operadores, fr \in ClientFoundRows :
        LET a == Args(NULL, 0, l, NULL, loc, 0, u)
            success == l \in DOMAIN lugares /\ (fr \/ lugares[l] # loc)
        IN  /\ lugares' = IF l \in DOMAIN lugares
                          THEN [lugares EXCEPT ![l] = loc] ELSE lugares
            /\ auditoria' = IF success /\ ~fallaAuditoria
                            THEN Append(auditoria, AudRow("Lugar", l, "update", u))
                            ELSE auditoria
            /\ last' = Result("update_lugar", a,
                              IF ~success THEN "false"
                              ELSE IF fallaAuditoria THEN "AuditoriaError" ELSE "ok", 0)
            /\ stock0' = stock
            /\ envios0' = envios
            /\ movimientos0' = movimientos
            /\ auditoria0' = auditoria
            /\ previo' = NoPrevio
            /\ UNCHANGED <<stock, envios, movimientos, proc, fallaAuditoria, activo>>

\* one place is updated, then one ledger call follows
TrasActualizar == last.op = "update_lugar"

LugarActualizar == Primera /\ ActualizarLugar
LugarSumar == TrasActualizar /\ Sumar
LugarAjustar == TrasActualizar /\ Ajustar

NextLugar ==
    \/ LugarActualizar
    \/ LugarSumar
    \/ LugarAjustar

SpecLugar == InitLedger /\ [][NextLugar]_vars

\* ------------------------------------------------------------------ claims
Debitos == {"crear_salida", "crear_transferencia", "crear_envio"}

\* C1: under any sequence of entry, exit, transfer, adjustment and shipment
\* create, receive and cancel calls, each running to completion, every stock
\* record holds a quantity >= 0.
C1_CantidadNoNegativa == \A r \in stock : r.cantidad >= 0

\* a debit has just emptied a stock record
C1_Witness ==
    /\ last.op \in Debitos
    /\ last.res = "ok"
    /\ get_stock(stock0, last.a.p, last.a.lo) > 0
    /\ get_stock(stock, last.a.p, last.a.lo) = 0

\* C3: crear_salida and restar_stock raise InsufficientStock whenever the
\* amount exceeds the quantity at the place (also when the place has no stock
\* record), and the ledger is then as it was before the call.
C3_DebitoInsuficiente ==
    /\ ( /\ last.op = "crear_salida"
         /\ last.a.p \in Productos
         /\ last.a.lo \in DOMAIN lugares
         /\ last.a.n > get_stock(stock0, last.a.p, last.a.lo) )
       => last.res = "InsufficientStock" /\ stock = stock0
    /\ ( /\ last.op = "restar_stock"
         /\ last.a.n > get_stock(stock0, last.a.p, last.a.lo) )
       => last.res = "InsufficientStock" /\ stock = stock0
    /\ ( /\ last.op \in {"crear_salida", "restar_stock"}
         /\ last.res = "InsufficientStock" )
       => stock = stock0

\* an exit asked for more than the quantity the place holds
C3_Witness ==
    /\ last.op = "crear_salida"
    /\ last.res = "InsufficientStock"
    /\ get_stock(stock, last.a.p, last.a.lo) > 0
    /\ last.a.n > get_stock(stock, last.a.p, last.a.lo)

\* C4: a transfer of n > 0 from place A to another place B moves exactly n
\* from A to B when A holds at least n (B's record is created when absent);
\* when A holds less the call fails and neither quantity changes.
C4_Transferencia ==
    ( /\ last.op \in {"crear_transferencia", "transferir_stock"}
      /\ last.a.p \in Productos
      /\ last.a.lo \in DOMAIN lugares
      /\ last.a.ld \in DOMAIN lugares
      /\ last.a.lo # last.a.ld
      /\ last.a.n > 0 )
    => IF get_stock(stock0, last.a.p, last.a.lo) >= last.a.n
       THEN /\ last.res = "ok"
            /\ get_stock(stock, last.a.p, last.a.lo)
                 = get_stock(stock0, last.a.p, last.a.lo) - last.a.n
            /\ get_stock(stock, last.a.p, last.a.ld)
                 = get_stock(stock0, last.a.p, last.a.ld) + last.a.n
            /\ Filas(stock, last.a.p, last.a.ld) # {}
       ELSE /\ last.res = "InsufficientStock"
            /\ stock = stock0

\* a transfer into a place that had no stock record, leaving stock at the origin
C4_Witness ==
    /\ last.op = "crear_transferencia"
    /\ last.res = "ok"
    /\ Filas(stock0, last.a.p, last.a.ld) = {}
    /\ get_stock(stock, last.a.p, last.a.lo) > 0

\* C5: a successful shipment create of quantity q from place P adds one
\* shipment in state enviado and lowers P's quantity by exactly q; no other
\* stock record changes (the destination is not credited).
C5_CrearEnvio ==
    (last.op = "crear_envio" /\ last.res = "ok")
    => /\ Len(envios) = Len(envios0) + 1
       /\ last.id = Len(envios)
       /\ \A i \in DOMAIN envios0 : envios[i] = envios0[i]
       /\ envios[last.id].estado = "enviado"
       /\ envios[last.id].id_producto = last.a.p
       /\ envios[last.id].cantidad = last.a.n
       /\ envios[last.id].lugar_origen = last.a.lo
       /\ get_stock(stock, last.a.p, last.a.lo)
            = get_stock(stock0, last.a.p, last.a.lo) - last.a.n
       /\ \A r \in stock0 \cup stock :
            (r.id_producto # last.a.p \/ r.id_lugar # last.a.lo)
            => r \in stock0 \cap stock

\* a shipment was created while a place of the destination location holds stock
C5_Witness ==
    /\ last.op = "crear_envio"
    /\ last.res = "ok"
    /\ \E r \in stock : r.id_localidad = last.a.locD /\ r.cantidad > 0

\* C6: receiving a shipment in state enviado at a place D of its destination
\* location sets the state to recibido, records the receiving actor and D as
\* the destination place, raises D's quantity by the shipment quantity and
\* leaves the origin place's quantity as it was.
C6_RecibirEnvio ==
    ( /\ last.op = "recibir_envio"
      /\ last.a.id \in DOMAIN envios0
      /\ envios0[last.a.id].estado = "enviado"
      /\ last.a.ld \in DOMAIN lugares
      /\ lugares[last.a.ld] = envios0[last.a.id].localidad_destino )
    => LET e == envios0[last.a.id] IN
       /\ last.res = "ok"
       /\ envios = [envios0 EXCEPT ![last.a.id] =
                       [e EXCEPT !.estado = "recibido",
                                 !.id_usuario_recibe = last.a.u,
                                 !.lugar_destino = last.a.ld]]
       /\ get_stock(stock, e.id_producto, last.a.ld)
            = get_stock(stock0, e.id_producto, last.a.ld) + e.cantidad
       /\ get_stock(stock, e.id_producto, e.lugar_origen)
            = get_stock(stock0, e.id_producto, e.lugar_origen)

\* a shipment created with another destination place was received at a place
\* that already held stock
C6_Witness ==
    /\ last.op = "recibir_envio"
    /\ last.res = "ok"
    /\ envios0[last.a.id].lugar_destino \notin {NULL, last.a.ld}
    /\ get_stock(stock0, envios0[last.a.id].id_producto, last.a.ld) > 0

\* C7: a successful shipment create directly followed by the cancel of that
\* shipment leaves the ledger as it was before the create, and the shipment
\* in state cancelado.
C7_CrearCancelar ==
    ( /\ last.op = "cancelar_envio"
      /\ last.res = "ok"
      /\ previo # NoPrevio
      /\ previo.id = last.a.id )
    => /\ stock = previo.stock
       /\ envios[last.a.id].estado = "cancelado"

\* a shipment that left stock behind at its origin was cancelled right after its creation
C7_Witness ==
    /\ last.op = "cancelar_envio"
    /\ last.res = "ok"
    /\ previo # NoPrevio
    /\ previo.id = last.a.id
    /\ get_stock(stock0, envios[last.a.id].id_producto, envios[last.a.id].lugar_origen) > 0

\* C8: a successful shipment create directly followed by the successful
\* receive of that shipment leaves the product's quantity summed over the
\* origin place and the receiving place as it was before the create: the
\* shipment quantity moved from the one to the other.
C8_CrearRecibir ==
    ( /\ last.op = "recibir_envio"
      /\ last.res = "ok"
      /\ previo # NoPrevio
      /\ previo.id = last.a.id )
    => LET e == envios[last.a.id]
           antesO == get_stock(previo.stock, e.id_producto, e.lugar_origen)
           antesD == get_stock(previo.stock, e.id_producto, last.a.ld)
           ahoraO == get_stock(stock, e.id_producto, e.lugar_origen)
           ahoraD == get_stock(stock, e.id_producto, last.a.ld)
       IN  /\ ahoraO + ahoraD = antesO + antesD
           /\ ahoraO = antesO - e.cantidad
           /\ ahoraD = antesD + e.cantidad

\* the receiving place held stock before the shipment was created
C8_Witness ==
    /\ last.op = "recibir_envio"
    /\ last.res = "ok"
    /\ previo # NoPrevio
    /\ previo.id = last.a.id
    /\ get_stock(previo.stock, envios[last.a.id].id_producto, last.a.ld) > 0

\* C9: receive and cancel on a shipment that is recibido or cancelado raise
\* InvalidState and change neither the shipment table nor the ledger.
C9_EstadoFinal ==
    ( /\ last.op \in {"recibir_envio", "cancelar_envio"}
      /\ last.a.id \in DOMAIN envios0
      /\ envios0[last.a.id].estado \in {"recibido", "cancelado"} )
    => /\ last.res = "InvalidState"
       /\ envios = envios0
       /\ stock = stock0

\* a cancel was attempted on a received shipment
C9_Witness ==
    /\ last.op = "cancelar_envio"
    /\ last.res = "InvalidState"
    /\ last.a.id \in DOMAIN envios
    /\ envios[last.a.id].estado = "recibido"

Max(a, b) == IF a >= b THEN a ELSE b

\* C2: two debits (exit, transfer, shipment create) on the same product and
\* place that run at the same time, each reading the stock and writing it in
\* separate steps, are serialized: no quantity is ever negative, and the two
\* do not both succeed when their amounts together exceed the quantity on hand.
C2_Serializado ==
    /\ \A r \in stock : r.cantidad >= 0
    /\ \A i, j \in Procs :
         ( /\ i # j
           /\ proc[i].op \in Debitos
           /\ proc[j].op \in Debitos
           /\ proc[i].a.p = proc[j].a.p
           /\ proc[i].a.lo = proc[j].a.lo
           /\ proc[i].res = "ok"
           /\ proc[j].res = "ok" )
         => proc[i].a.n + proc[j].a.n <= Max(proc[i].leido, proc[j].leido)

\* C10: the state of a shipment changes only from enviado or en_transito to
\* recibido or cancelado; a shipment that is recibido or cancelado keeps its
\* state whatever create, receive and cancel calls follow, and no shipment
\* row disappears.
C10_Transiciones ==
    /\ Len(envios0) <= Len(envios)
    /\ \A id \in DOMAIN envios0 :
         envios[id].estado # envios0[id].estado
         => /\ envios0[id].estado \in {"enviado", "en_transito"}
            /\ envios[id].estado \in {"recibido", "cancelado"}

\* a receive that had read the shipment as enviado wrote after the shipment
\* had been cancelled, and its update changed nothing
C10_Witness ==
    \E i \in Procs :
      /\ proc[i].op = "recibir_envio"
      /\ proc[i].res = "false"
      /\ proc[i].e.estado = "enviado"
      /\ envios[proc[i].a.id].estado = "cancelado"

ServiciosMovimiento == {"crear_entrada", "crear_salida", "crear_transferencia", "crear_ajuste"}
ServiciosEnvio == {"crear_envio", "recibir_envio", "cancelar_envio"}

\* the call completed last added exactly one row to the log
UnaFila(log, log0) ==
    /\ Len(log) = Len(log0) + 1
    /\ \A i \in DOMAIN log0 : log[i] = log0[i]

\* C11: an adjustment of the quantity c of a place to the new quantity m
\* persists one movement of kind ajuste whose quantity is |m - c|, whose
\* origin place is the adjusted place exactly when m < c and whose
\* destination place is the adjusted place exactly when m > c, the other
\* place being null; for m = c the quantity is 0 and both places are null.
C11_MovimientoAjuste ==
    ( /\ last.op = "crear_ajuste"
      /\ last.a.p \in Productos
      /\ last.a.lo \in DOMAIN lugares
      /\ last.a.n >= 0 )
    => LET c == get_stock(stock0, last.a.p, last.a.lo)
           m == last.a.n
           l == last.a.lo
       IN  /\ UnaFila(movimientos, movimientos0)
           /\ LET mv == movimientos[Len(movimientos)] IN
              /\ mv.tipo = "ajuste"
              /\ mv.id_producto = last.a.p
              /\ mv.cantidad = (IF m >= c THEN m - c ELSE c - m)
              /\ mv.lugar_origen = (IF m < c THEN l ELSE NULL)
              /\ mv.lugar_destino = (IF m > c THEN l ELSE NULL)

\* an adjustment lowered a quantity and left stock at the place
C11_Witness ==
    /\ last.op = "crear_ajuste"
    /\ last.res = "ok"
    /\ last.a.n > 0
    /\ last.a.n < get_stock(stock0, last.a.p, last.a.lo)

\* C12: an adjustment (crear_ajuste or ajustar_stock) with a new quantity
\* >= 0 on an existing product and place always succeeds and leaves the
\* quantity of that product at that place equal to the new quantity, whether
\* the record was absent, held another quantity or already held that quantity.
C12_AjusteExacto ==
    ( /\ last.op \in {"crear_ajuste", "ajustar_stock"}
      /\ last.a.p \in Productos
      /\ last.a.lo \in DOMAIN lugares
      /\ last.a.n >= 0 )
    => /\ last.res = "ok"
       /\ Filas(stock, last.a.p, last.a.lo) # {}
       /\ get_stock(stock, last.a.p, last.a.lo) = last.a.n

\* C13: a successful entry, exit, transfer or adjustment adds exactly one
\* movement row and exactly one audit row and changes the ledger at the place
\* of the call only (at the origin and the destination for a transfer), by
\* the amount of the call; a successful shipment create, receive or cancel
\* adds exactly one audit row and no movement row.
C13_UnRegistroPorLlamada ==
    /\ (last.op \in ServiciosMovimiento /\ last.res = "ok")
       => /\ UnaFila(movimientos, movimientos0)
          /\ UnaFila(auditoria, auditoria0)
          /\ last.id = Len(movimientos)
          /\ auditoria[Len(auditoria)].id_entidad = last.id
          /\ LET lugs == {last.a.lo, last.a.ld} \ {NULL}
                 q0(l) == get_stock(stock0, last.a.p, l)
                 q(l) == get_stock(stock, last.a.p, l)
             IN  /\ \A r \in stock0 \cup stock :
                      (r.id_producto # last.a.p \/ r.id_lugar \notin lugs)
                      => r \in stock0 \cap stock
                 /\ last.op = "crear_entrada" => q(last.a.ld) = q0(last.a.ld) + last.a.n
                 /\ last.op = "crear_salida" => q(last.a.lo) = q0(last.a.lo) - last.a.n
                 /\ last.op = "crear_transferencia"
                      => /\ q(last.a.lo) = q0(last.a.lo) - last.a.n
                         /\ q(last.a.ld) = q0(last.a.ld) + last.a.n
                 /\ last.op = "crear_ajuste" => q(last.a.lo) = last.a.n
    /\ (last.op \in ServiciosEnvio /\ last.res = "ok")
       => /\ UnaFila(auditoria, auditoria0)
          /\ auditoria[Len(auditoria)].entidad = "Envio"
          /\ auditoria[Len(auditoria)].id_entidad = last.id
          /\ movimientos = movimientos0

\* a shipment was received after a movement had been recorded
C13_Witness ==
    /\ last.op = "recibir_envio"
    /\ last.res = "ok"
    /\ Len(movimientos) > 0
    /\ Len(auditoria) >= 3

\* C14: the quantity read for a product and place without a stock record is
\* 0; a credit of n > 0 to such a place makes the quantity read n and creates
\* the record with the location that owns the place; a debit of n that
\* follows makes the quantity read 0.
C14_LecturaCreditoDebito ==
    /\ \A p \in ProductoIds, l \in LugarIds :
         Filas(stock, p, l) = {} => get_stock(stock, p, l) = 0
    /\ ( /\ last.op = "sumar_stock"
         /\ last.a.ld \in DOMAIN lugares
         /\ last.a.n > 0
         /\ Filas(stock0, last.a.p, last.a.ld) = {} )
       => /\ last.res = "ok"
          /\ get_stock(stock, last.a.p, last.a.ld) = last.a.n
          /\ \A r \in Filas(stock, last.a.p, last.a.ld) :
               r.id_localidad = lugares[last.a.ld]
          /\ Filas(stock, last.a.p, last.a.ld) # {}
    /\ ( /\ last.op = "restar_stock"
         /\ previo.op = "sumar_stock"
         /\ previo.a.n > 0
         /\ Filas(previo.stock, previo.a.p, previo.a.ld) = {}
         /\ last.a.p = previo.a.p
         /\ last.a.lo = previo.a.ld
         /\ last.a.n = previo.a.n )
       => /\ last.res = "ok"
          /\ get_stock(stock, last.a.p, last.a.lo) = 0

\* a place without a record was credited and then debited by the same amount
\* while another place held stock
C14_Witness ==
    /\ last.op = "restar_stock"
    /\ last.res = "ok"
    /\ previo.op = "sumar_stock"
    /\ Filas(previo.stock, previo.a.p, previo.a.ld) = {}
    /\ last.a.lo = previo.a.ld
    /\ last.a.n = previo.a.n
    /\ last.a.n > 0
    /\ \E r \in stock : r.id_lugar # last.a.lo /\ r.cantidad > 0

\* C15: a transfer whose origin place is its destination place fails with
\* InvalidArgument whatever the stock at that place, and adds no movement
\* row, adds no audit row and changes no quantity of the ledger.
C15_TransferenciaMismoLugar ==
    ( /\ last.op = "crear_transferencia"
      /\ last.a.lo = last.a.ld )
    => /\ last.res # "ok"
       /\ ( /\ last.a.p \in Productos
            /\ last.a.n > 0
            /\ last.a.lo \in DOMAIN lugares )
          => last.res = "InvalidArgument"
       /\ movimientos = movimientos0
       /\ auditoria = auditoria0
       /\ stock = stock0

\* a transfer from a place to itself was asked for an amount the place holds
C15_Witness ==
    /\ last.op = "crear_transferencia"
    /\ last.a.lo = last.a.ld
    /\ last.res = "InvalidArgument"
    /\ last.a.n > 0
    /\ get_stock(stock, last.a.p, last.a.lo) >= last.a.n

\* C16: a shipment create whose origin place belongs to the destination
\* location fails with InvalidArgument, creates no shipment row and debits
\* nothing; hence every shipment row has an origin location that differs
\* from its destination location.
C16_EnvioMismaLocalidad ==
    /\ ( /\ last.op = "crear_envio"
         /\ last.a.p \in Productos
         /\ last.a.n > 0
         /\ last.a.lo \in DOMAIN lugares
         /\ lugares[last.a.lo] = last.a.locD )
       => /\ last.res = "InvalidArgument"
          /\ envios = envios0
          /\ stock = stock0
    /\ \A i \in DOMAIN envios :
         envios[i].localidad_origen # envios[i].localidad_destino

\* a shipment within one location was asked for an amount the origin holds
C16_Witness ==
    /\ last.op = "crear_envio"
    /\ last.res = "InvalidArgument"
    /\ last.a.lo \in DOMAIN lugares
    /\ lugares[last.a.lo] = last.a.locD
    /\ last.a.n > 0
    /\ get_stock(stock, last.a.p, last.a.lo) >= last.a.n

\* C17: a shipment create asking for more than the quantity on hand at the
\* origin place fails with InsufficientStock; no shipment row is created, no
\* audit row is written and the origin quantity is unchanged.
C17_EnvioSinStock ==
    ( /\ last.op = "crear_envio"
      /\ last.a.p \in Productos
      /\ last.a.lo \in DOMAIN lugares
      /\ last.a.locD \in Localidades
      /\ lugares[last.a.lo] # last.a.locD
      /\ last.a.n > get_stock(stock0, last.a.p, last.a.lo) )
    => /\ last.res = "InsufficientStock"
       /\ envios = envios0
       /\ auditoria = auditoria0
       /\ stock = stock0

\* a shipment was asked for more than the stock the origin place holds
C17_Witness ==
    /\ last.op = "crear_envio"
    /\ last.res = "InsufficientStock"
    /\ get_stock(stock, last.a.p, last.a.lo) > 0
    /\ last.a.n > get_stock(stock, last.a.p, last.a.lo)

\* C18: a receive at a place whose location is not the shipment's destination
\* location fails with InvalidArgument; the shipment keeps the state it had
\* (so it can still be received or cancelled) and no quantity of the ledger
\* changes.
C18_RecibirLugarAjeno ==
    ( /\ last.op = "recibir_envio"
      /\ last.a.id \in DOMAIN envios0
      /\ envios0[last.a.id].estado \in {"enviado", "en_transito"}
      /\ last.a.ld \in DOMAIN lugares
      /\ lugares[last.a.ld] # envios0[last.a.id].localidad_destino )
    => /\ last.res = "InvalidArgument"
       /\ envios = envios0
       /\ ~RecibirRechaza(envios[last.a.id])
       /\ ~CancelarRechaza(envios[last.a.id])
       /\ stock = stock0
       /\ auditoria = auditoria0

\* a receive was refused at the shipment's own origin place
C18_Witness ==
    /\ last.op = "recibir_envio"
    /\ last.res = "InvalidArgument"
    /\ last.a.id \in DOMAIN envios
    /\ envios[last.a.id].estado = "enviado"
    /\ last.a.ld = envios[last.a.id].lugar_origen

\* the request has credited the ledger with its shipment's quantity
Acreditado(i) ==
    /\ proc[i].op \in {"recibir_envio", "cancelar_envio"}
    /\ \/ proc[i].pc = "audit"
       \/ proc[i].pc = "done" /\ proc[i].res = "ok"

\* C19: over any sequence or interleaving of receive and cancel calls on one
\* shipment, each of which reads the shipment's state before updating it, the
\* shipment's quantity is credited to the ledger at most once: to the
\* receiving place or to the origin place, never to both and never twice.
C19_UnSoloCredito ==
    \A i, j \in Procs :
      (i # j /\ proc[i].a.id = proc[j].a.id) => ~(Acreditado(i) /\ Acreditado(j))

\* C20: every shipment row in state enviado stands for a debit of its
\* quantity that was applied to its origin place: no execution, also one in
\* which a shipment create races another debit for the same stock, ends a
\* create with an error after its row was inserted and leaves the row enviado.
C20_EnvioDebitado ==
    \A i \in Procs :
      ( /\ proc[i].op = "crear_envio"
        /\ proc[i].pc = "done"
        /\ proc[i].id \in DOMAIN envios
        /\ envios[proc[i].id].estado = "enviado" )
      => proc[i].res = "ok"

\* C21: whenever a movement row exists, the ledger change it describes has
\* been applied: no entry, exit, transfer or adjustment, also one whose ledger
\* step fails after the movement was inserted, ends with an error and leaves
\* its movement row behind.
C21_MovimientoAplicado ==
    \A i \in Procs :
      ( /\ proc[i].op \in ServiciosMovimiento
        /\ proc[i].pc = "done"
        /\ proc[i].id \in DOMAIN movimientos )
      => proc[i].res = "ok"

\* the statements that read productos_localidad
Lecturas == {"get_stock", "transferir_get", "restar_get", "sumar_sel"}

\* the transfer has debited its origin and has not credited its destination
MedioAplicada(i) ==
    /\ proc[i].op = "crear_transferencia"
    /\ proc[i].pc \in {"sumar_sel", "sumar_upd", "sumar_ins"}

\* the transfer ended with an error after it had debited its origin
SinCredito(i) ==
    /\ proc[i].op = "crear_transferencia"
    /\ proc[i].pc = "done"
    /\ proc[i].res \in {"Internal", "NotFound"}

\* C22: a transfer is all or nothing to every observer: no other request
\* reads the ledger while the origin is debited and the destination is not
\* yet credited, and no transfer ends with the debit applied and the credit
\* not applied.
C22_TransferenciaAtomica ==
    \A i \in Procs :
      /\ ~SinCredito(i)
      /\ MedioAplicada(i) => \A j \in Procs \ {i} : proc[j].pc \notin Lecturas

RECURSIVE SumaEnviados(_, _, _)
\* the sum of the quantities of the first k shipments that are enviado, of product p
SumaEnviados(env, p, k) ==
    IF k = 0 THEN 0
    ELSE (IF env[k].estado = "enviado" /\ env[k].id_producto = p
          THEN env[k].cantidad ELSE 0)
         + SumaEnviados(env, p, k - 1)

\* what the organisation holds of product p: on the shelves and on the road
Total(st, env, p) ==
    SumaFilas({r \in st : r.id_producto = p}) + SumaEnviados(env, p, Len(env))

\* C23: for each product, the sum of all ledger quantities plus the
\* quantities of its shipments in state enviado is left as it was by every
\* transfer, shipment create, receive and cancel, successful or not (calls
\* running one at a time); it changes by +q on a successful entry of q, by -q
\* on a successful exit of q, by new - current on a successful adjustment, and
\* not at all on a failed one.
C23_TotalPorProducto ==
    \A p \in Productos :
      LET T == Total(stock, envios, p)
          T0 == Total(stock0, envios0, p)
          mio == last.a.p = p /\ last.res = "ok"
      IN  /\ last.op \in {"crear_transferencia"} \cup ServiciosEnvio => T = T0
          /\ last.op = "crear_entrada"
               => T = T0 + (IF mio THEN last.a.n ELSE 0)
          /\ last.op = "crear_salida"
               => T = T0 - (IF mio THEN last.a.n ELSE 0)
          /\ last.op = "crear_ajuste"
               => T = T0 + (IF mio THEN last.a.n - get_stock(stock0, p, last.a.lo) ELSE 0)

\* a shipment was cancelled while the destination location held stock
C23_Witness ==
    /\ last.op = "cancelar_envio"
    /\ last.res = "ok"
    /\ \E r \in stock : r.id_lugar # envios[last.a.id].lugar_origen /\ r.cantidad > 0

\* the delta the adjustment of request i logged in its movement row
DeltaRegistrado(i) ==
    LET mv == movimientos[proc[i].id] IN
    IF mv.lugar_origen # NULL THEN -mv.cantidad ELSE mv.cantidad

\* C24: the delta an adjustment logs (its movement's quantity and side) is
\* the new quantity minus the quantity its overwrite actually replaced, also
\* when another call changes the same product and place between the
\* adjustment's read of the quantity and its overwrite.
C24_DeltaAjuste ==
    [][ \A i \in Procs :
          ( /\ proc[i].op = "crear_ajuste"
            /\ proc[i].pc \in {"ajustar_upd", "ajustar_ins"}
            /\ proc'[i].pc = "audit" )
          => DeltaRegistrado(i)
               = proc[i].a.n - get_stock(stock, proc[i].a.p, proc[i].a.lo) ]_vars

\* request i is inside sumar_stock, between its SELECT and its UPDATE or INSERT
EnCredito(i) ==
    /\ proc[i].op \in {"crear_entrada", "recibir_envio", "cancelar_envio"}
    /\ proc[i].pc \in {"sumar_upd", "sumar_ins"}

\* request j is inside sumar_stock or has returned from it
ConCredito(j) ==
    \/ EnCredito(j)
    \/ /\ proc[j].op \in {"crear_entrada", "recibir_envio", "cancelar_envio"}
       /\ proc[j].pc = "audit" \/ (proc[j].pc = "done" /\ proc[j].res = "ok")

\* C25: two concurrent credits of a and b (entry, shipment receive or cancel)
\* on the same product and place both succeed and each adds exactly its
\* amount, so that the quantity grows by a + b, also when no record exists
\* and both callers see it absent before they insert.
C25_CreditosConcurrentes ==
    [][ \A i, j \in Procs :
          ( /\ i # j
            /\ EnCredito(i)
            /\ ConCredito(j)
            /\ Prod(proc[i]) = Prod(proc[j])
            /\ LugarSuma(proc[i]) = LugarSuma(proc[j])
            /\ proc'[i] # proc[i] )
          => /\ proc'[i].pc = "audit"
             /\ get_stock(stock', Prod(proc[i]), LugarSuma(proc[i]))
                  = get_stock(stock, Prod(proc[i]), LugarSuma(proc[i])) + Cant(proc[i]) ]_vars

\* C26: no shipment is ever in state en_transito in a state reached through
\* crear_envio, recibir_envio and cancelar_envio: a created shipment is
\* enviado, and receive and cancel only move it to recibido or cancelado.
C26_NuncaEnTransito ==
    \A k \in DOMAIN envios : envios[k].estado \in {"enviado", "recibido", "cancelado"}

C26_Witness ==
    /\ last.op \in {"recibir_envio", "cancelar_envio"}
    /\ last.res = "ok"
    /\ envios0[last.a.id].estado = "enviado"
    /\ envios[last.a.id].estado \in {"recibido", "cancelado"}

\* C27: sumar_stock and restar_stock themselves reject an amount <= 0 with
\* InvalidArgument and leave the ledger as it was; in particular a debit of a
\* negative amount never raises a quantity and a credit of a negative amount
\* never lowers one.
C27_MontoNoPositivo ==
    ( /\ last.op \in {"sumar_stock", "restar_stock"}
      /\ last.a.n <= 0 )
    => /\ last.res = "InvalidArgument"
       /\ stock = stock0

\* C28: every rejected receive or cancel is reported as a typed failure: in
\* no execution, also one in which a receive races a cancel of the same
\* shipment so that the conditional UPDATE matches no row, does recibir_envio
\* or cancelar_envio return a bare False instead of raising.
C28_FalloTipado ==
    \A i \in Procs :
      ( /\ proc[i].op \in {"recibir_envio", "cancelar_envio"}
        /\ proc[i].pc = "done" )
      => proc[i].res # "false"

\* the rows and quantities the call completed last has written
Aplicada ==
    LET a == last.a IN
    CASE last.op = "crear_entrada" ->
           /\ UnaFila(movimientos, movimientos0)
           /\ get_stock(stock, a.p, a.ld) = get_stock(stock0, a.p, a.ld) + a.n
      [] last.op = "crear_salida" ->
           /\ UnaFila(movimientos, movimientos0)
           /\ get_stock(stock, a.p, a.lo) = get_stock(stock0, a.p, a.lo) - a.n
      [] last.op = "crear_transferencia" ->
           /\ UnaFila(movimientos, movimientos0)
           /\ get_stock(stock, a.p, a.lo) = get_stock(stock0, a.p, a.lo) - a.n
           /\ get_stock(stock, a.p, a.ld) = get_stock(stock0, a.p, a.ld) + a.n
      [] last.op = "crear_ajuste" ->
           /\ UnaFila(movimientos, movimientos0)
           /\ get_stock(stock, a.p, a.lo) = a.n
      [] last.op = "crear_envio" ->
           /\ UnaFila(envios, envios0)
           /\ envios[Len(envios)].estado = "enviado"
           /\ get_stock(stock, a.p, a.lo) = get_stock(stock0, a.p, a.lo) - a.n
      [] last.op = "recibir_envio" ->
           /\ envios0[a.id].estado = "enviado"
           /\ envios[a.id].estado = "recibido"
           /\ get_stock(stock, envios[a.id].id_producto, a.ld)
                = get_stock(stock0, envios[a.id].id_producto, a.ld) + envios[a.id].cantidad
      [] last.op = "cancelar_envio" ->
           /\ envios0[a.id].estado = "enviado"
           /\ envios[a.id].estado = "cancelado"
           /\ get_stock(stock, envios[a.id].id_producto, envios[a.id].lugar_origen)
                = get_stock(stock0, envios[a.id].id_producto, envios[a.id].lugar_origen)
                    + envios[a.id].cantidad
      [] OTHER -> FALSE

\* C29: when the audit write fails after the ledger change of a movement or
\* shipment call was applied, the ledger change and the movement or shipment
\* row stay applied (nothing is rolled back) and the call reports the failure
\* to its caller: no call reports success while the audit write fails.
C29_FalloAuditoria ==
    /\ last.res = "AuditoriaError"
         => /\ Aplicada
            /\ auditoria = auditoria0
    /\ (fallaAuditoria /\ last.op \in ServiciosMovimiento \cup ServiciosEnvio)
         => last.res # "ok"

\* the audit write of a receive failed after the receiving place was credited
C29_Witness ==
    /\ last.op = "recibir_envio"
    /\ last.res = "AuditoriaError"
    /\ envios[last.a.id].estado = "recibido"
    /\ get_stock(stock, envios[last.a.id].id_producto, last.a.ld) > 0

\* C30: in every reachable state the id_localidad of each stock record is
\* the location that owns the record's place, and there is at most one stock
\* record per product and place; also after records were created by
\* sumar_stock or ajustar_stock and after a place was moved to another location.
C30_LocalidadDelLugar ==
    /\ \A r \in stock :
         r.id_lugar \in DOMAIN lugares => r.id_localidad = lugares[r.id_lugar]
    /\ \A r1, r2 \in stock :
         (r1.id_producto = r2.id_producto /\ r1.id_lugar = r2.id_lugar) => r1 = r2

\* C31: ProductoService.delete sets a product inactive only when the sum of
\* its ledger quantities over all places is zero; when the sum is not zero
\* the delete fails and the product stays active.
C31_EliminarSinStock ==
    [][ \A i \in Procs :
          /\ ( /\ proc[i].op = "delete"
               /\ activo[proc[i].a.p]
               /\ ~activo'[proc[i].a.p] )
             => get_stock_total(stock, proc[i].a.p) = 0
          /\ ( /\ proc[i].pc = "stock_total"
               /\ proc'[i] # proc[i]
               /\ get_stock_total(stock, proc[i].a.p) # 0 )
             => /\ proc'[i].pc = "done"
                /\ proc'[i].res \notin {"ok", "false"}
                /\ activo' = activo ]_vars

====
